---------------------------- MODULE Spec2Model ----------------------------
(***************************************************************************)
(* Model of the uesave command line tool (src/src/main.rs): the four       *)
(* commands to-json, from-json, test-resave and edit, one invocation per   *)
(* behaviour, over a small file system, the standard streams and the       *)
(* editor child process.  SpecPipe runs to-json piped into from-json and   *)
(* SpecTwice runs test-resave twice on the same file system.               *)
(*                                                                         *)
(* Files and streams hold byte sequences.  The binary codec (uesave::Save) *)
(* and the JSON text bridge (serde_json) are not part of main.rs; they are *)
(* modelled by a small deterministic codec that has round-trip-stable      *)
(* files, decodable files that re-encode differently, undecodable files,   *)
(* and documents that cannot be encoded.                                   *)
(*                                                                         *)
(* Modelling decisions:                                                    *)
(*  - every file/stream open, read and write may fail; a failed write      *)
(*    leaves a strict prefix of the data behind;                           *)
(*  - a BufWriter flushes what is left in its buffer when it is dropped    *)
(*    and ignores the result of that flush;                                *)
(*  - println! to the console always succeeds;                             *)
(*  - a panic unwinds (the default profile), so locals are dropped;        *)
(*  - the editor only touches the temporary file it is given.              *)
(***************************************************************************)
EXTENDS Integers, Sequences, FiniteSets, TLC

(* ---------------------------- bounds ----------------------------------- *)
\* largest byte value that occurs in a save file
MaxByte == 2
\* longest save file
MaxLen == 3

(* ------------------------ byte sequences -------------------------------- *)
RECURSIVE SeqsUpTo(_, _)
SeqsUpTo(S, n) ==
    IF n = 0 THEN {<<>>}
    ELSE LET shorter == SeqsUpTo(S, n - 1)
         IN  shorter \cup {Append(s, x) : s \in {t \in shorter : Len(t) = n - 1}, x \in S}

\* strict prefixes of data: what a write that fails part-way leaves behind
Prefixes(data) == {SubSeq(data, 1, k) : k \in 0..(Len(data) - 1)}

\* the absent file / the absent byte buffer
NoFile == <<-1>>
NoBytes == <<-2>>
\* the absent document
NoSave == -1

(* --------------------------- binary codec ------------------------------- *)
\* first byte of every valid save
Magic == 1

\* Save::read: a header byte, one field, anything after the field is ignored
Decode(bytes) ==
    IF Len(bytes) >= 2 /\ bytes[1] = Magic THEN bytes[2] ELSE NoSave

\* a document whose field fits a byte can be written
Encodable(save) == save \in 0..MaxByte

\* Save::write: the canonical encoding
Encode(save) == IF Encodable(save) THEN <<Magic, save>> ELSE NoBytes

(* ---------------------------- text bridge ------------------------------- *)
LBrace == 123
RBrace == 125
Space == 32
Newline == 10
Digit0 == 48

\* documents the text form can express: one more than the binary form can
TextDocs == 0..(MaxByte + 1)

\* serde_json::to_writer_pretty: braces on their own lines, two-space indent
ToTextPretty(save) ==
    <<LBrace, Newline, Space, Space, Digit0 + save, Newline, RBrace>>

\* the same document without whitespace
ToTextCompact(save) == <<LBrace, Digit0 + save, RBrace>>

IsSpace(c) == c \in {Space, Newline}

StripSpace(text) == SelectSeq(text, LAMBDA c : ~IsSpace(c))

\* serde_json::from_reader: whitespace is insignificant, structure is checked
FromText(text) ==
    LET t == StripSpace(text)
    IN  IF /\ Len(t) = 3
           /\ t[1] = LBrace
           /\ t[3] = RBrace
           /\ (t[2] - Digit0) \in TextDocs
        THEN t[2] - Digit0
        ELSE NoSave

(* ------------------------- editor command ------------------------------- *)
\* Option<String>
None == [some |-> FALSE, val |-> <<>>]
Some(s) == [some |-> TRUE, val |-> s]

\* the EDITOR variable: unset, set to text, or set to bytes that are not
\* valid Unicode
EnvUnset == [set |-> FALSE, unicode |-> TRUE, val |-> <<>>]
EnvSet(s) == [set |-> TRUE, unicode |-> TRUE, val |-> s]
EnvNotUnicode(s) == [set |-> TRUE, unicode |-> FALSE, val |-> s]

\* std::env::var: Err when the variable is unset or is not valid Unicode
EnvVar(e) == IF e.set /\ e.unicode THEN Some(e.val) ELSE None

\* the hardcoded fallback editor
Vim == <<"v", "i", "m">>

\* shell_words::split over blanks and single quotes:
\* st = [words, cur, inWord, inQuote]
RECURSIVE SplitFrom(_, _, _)
SplitFrom(s, i, st) ==
    IF i > Len(s)
    THEN IF st.inQuote THEN [ok |-> FALSE, words |-> <<>>]
         ELSE [ok |-> TRUE,
               words |-> IF st.inWord THEN Append(st.words, st.cur) ELSE st.words]
    ELSE LET c == s[i]
         IN  IF st.inQuote
             THEN IF c = "'"
                  THEN SplitFrom(s, i + 1, [st EXCEPT !.inQuote = FALSE])
                  ELSE SplitFrom(s, i + 1, [st EXCEPT !.cur = Append(@, c)])
             ELSE IF c = "'"
                  THEN SplitFrom(s, i + 1, [st EXCEPT !.inQuote = TRUE, !.inWord = TRUE])
                  ELSE IF c = " "
                  THEN IF st.inWord
                       THEN SplitFrom(s, i + 1,
                                [st EXCEPT !.words = Append(@, st.cur),
                                           !.cur = <<>>, !.inWord = FALSE])
                       ELSE SplitFrom(s, i + 1, st)
                  ELSE SplitFrom(s, i + 1,
                           [st EXCEPT !.cur = Append(@, c), !.inWord = TRUE])

Split(s) ==
    SplitFrom(s, 1, [words |-> <<>>, cur |-> <<>>, inWord |-> FALSE, inQuote |-> FALSE])


(* ------------------------------ state ----------------------------------- *)
VARIABLES
    args,        \* the parsed command line (Args): action, input, output, path, editor, debug
    env,         \* the EDITOR environment variable
    fs,          \* the file system: path -> bytes, or NoFile
    fs0,         \* the file system when the command started
    stdin,       \* the bytes on standard input
    stdout,      \* the bytes written to standard output as a data stream
    printed,     \* the messages printed with println!
    pc,          \* the position of main
    exit,        \* the exit status, -1 while running
    err,         \* the error reported at the top level, "" when none
    failStep,    \* the step whose failure ended the command, "" when none
    swallowed,   \* TRUE once a failed flush was ignored
    buffer,      \* the raw bytes read from the input
    save,        \* the decoded or parsed document
    out_buffer,  \* the re-encoded bytes
    editor,      \* the editor command string
    child,       \* the editor child process
    kept,        \* TRUE when the editor left the temporary file's text as it was
    openedW,     \* the paths opened for writing so far
    prev         \* the outcome of the command run before this one, if any

vars == <<args, env, fs, fs0, stdin, stdout, printed, pc, exit, err, failStep,
          swallowed, buffer, save, out_buffer, editor, child, kept, openedW,
          prev>>

SavePath == "save.sav"
MissingPath == "missing.sav"
InputDump == "input.sav"
OutputDump == "output.sav"
OutPath == "out.dat"
TempPath == "tmp.json"
Std == "-"

Paths == {SavePath, MissingPath, InputDump, OutputDump, OutPath, TempPath}

\* the contents a save file may have
SaveFiles == SeqsUpTo(0..MaxByte, MaxLen)

\* the texts from-json may be given
TextFiles ==
    {ToTextPretty(d) : d \in TextDocs} \cup {ToTextCompact(d) : d \in TextDocs}
        \cup {<<>>, <<LBrace>>, <<LBrace, Digit0, Digit0, RBrace>>}

\* what an earlier run left at an output path
Stale == <<Magic, 0, 0>>

\* the editor commands tried
EditorCmds ==
    { <<>>,
      <<" ">>,
      <<"v", "i">>,
      <<"e", " ", "-", "w">>,
      <<"'", "a", " ", "b", "'", " ", "c">>,
      <<"e", " ", "'", "x">> }

NoChild == [state |-> "none", stdin |-> "none", argv |-> <<>>, status |-> 0]

Messages == {"Resave successful", "File unchanged, doing nothing.",
             "File modified, writing new save."}

ArgsOf(action, input, output, path, ed, debug) ==
    [action |-> action, input |-> input, output |-> output, path |-> path,
     editor |-> ed, debug |-> debug]

\* the command lines tried
CommandLines ==
    {ArgsOf(a, i, o, "", None, FALSE) :
        a \in {"to-json", "from-json"}, i \in {Std, SavePath, MissingPath},
        o \in {Std, OutPath}}
    \cup {ArgsOf("test-resave", "", "", p, None, d) :
        p \in {SavePath, InputDump, OutputDump, MissingPath}, d \in BOOLEAN}
    \cup {ArgsOf("edit", "", "", p, e, FALSE) :
        p \in {SavePath, MissingPath},
        e \in {None} \cup {Some(c) : c \in EditorCmds}}

\* no command was run before this one
NoRun == [ran |-> FALSE, exit |-> -1, err |-> "", input |-> NoBytes,
          swallowed |-> FALSE, debug |-> FALSE]

\* the file a command line reads
InputPathOf(a) == IF a.action \in {"to-json", "from-json"} THEN a.input ELSE a.path

FirstStep(a) ==
    CASE a.action = "to-json" -> "tojson_input"
      [] a.action = "from-json" -> "fromjson_input"
      [] a.action = "test-resave" -> "resave_read"
      [] a.action = "edit" -> "edit_editor"

Init ==
    /\ args \in CommandLines
    /\ env \in {EnvUnset, EnvSet(<<"e", "d">>), EnvNotUnicode(<<"e", "?">>)}
    /\ \E content \in (IF args.action = "from-json" THEN TextFiles ELSE SaveFiles),
          old \in {NoFile, Stale} :
          /\ stdin = content
          /\ fs = [p \in Paths |->
                     IF p \in {MissingPath, TempPath} THEN NoFile
                     ELSE IF p = InputPathOf(args) \/ p = SavePath THEN content
                     ELSE old]
    /\ fs0 = fs
    /\ stdout = <<>>
    /\ printed = {}
    /\ pc = FirstStep(args)
    /\ exit = -1
    /\ err = ""
    /\ failStep = ""
    /\ swallowed = FALSE
    /\ buffer = NoBytes
    /\ save = NoSave
    /\ out_buffer = NoBytes
    /\ editor = <<>>
    /\ child = NoChild
    /\ kept = FALSE
    /\ openedW = {}
    /\ prev = NoRun

(* --------------------------- common steps ------------------------------- *)
\* main returns Err(kind) from the step named
Fail(kind, step) ==
    /\ pc' = "done"
    /\ exit' = 1
    /\ err' = kind
    /\ failStep' = step

\* main returns Ok(())
Succeed ==
    /\ pc' = "done"
    /\ exit' = 0
    /\ UNCHANGED <<err, failStep>>

\* std::fs::write(path, data) on file system f: the results it can have,
\* as [fs, ok, opened]
FsWrite(f, path, data) ==
    {[fs |-> [f EXCEPT ![path] = data], ok |-> TRUE, opened |-> TRUE],
     [fs |-> f, ok |-> FALSE, opened |-> FALSE]}
    \cup {[fs |-> [f EXCEPT ![path] = p], ok |-> FALSE, opened |-> TRUE] :
            p \in Prefixes(data)}

(* ----------------------------- test-resave ------------------------------ *)
\* line 69: std::fs::read(action.path)?
ResaveRead ==
    /\ pc = "resave_read"
    /\ \/ /\ fs[args.path] # NoFile
          /\ buffer' = fs[args.path]
          /\ pc' = "resave_roundtrip"
          /\ UNCHANGED <<exit, err, failStep>>
       \/ /\ Fail("IOError", "read")
          /\ UNCHANGED buffer
    /\ UNCHANGED <<args, env, prev, fs, fs0, stdin, stdout, printed, swallowed, save,
                   out_buffer, editor, child, kept, openedW>>

\* line 71: Save::read(&mut input)?.write(&mut output)?
ResaveRoundTrip ==
    /\ pc = "resave_roundtrip"
    /\ save' = Decode(buffer)
    /\ IF save' = NoSave
       THEN Fail("DecodeError", "decode") /\ UNCHANGED out_buffer
       ELSE IF ~Encodable(save')
       THEN Fail("EncodeError", "encode") /\ UNCHANGED out_buffer
       ELSE /\ out_buffer' = Encode(save')
            /\ pc' = "resave_compare"
            /\ UNCHANGED <<exit, err, failStep>>
    /\ UNCHANGED <<args, env, prev, fs, fs0, stdin, stdout, printed, swallowed, buffer,
                   editor, child, kept, openedW>>

\* the verdict taken over the common prefix of the two buffers only
ResaveMatchesZip(input, output) ==
    \A i \in 1..(IF Len(input) < Len(output) THEN Len(input) ELSE Len(output)) :
        input[i] = output[i]

\* line 73: the verdict
ResaveMatches(input, output) == input = output

\* the dumps written on every mismatch, whatever the flag
DumpWantedIgnoringFlag(debug, input, output) == ~ResaveMatches(input, output)

\* lines 73-74: the dumps are written on a mismatch under --debug
DumpWanted(debug, input, output) == ~ResaveMatches(input, output) /\ debug

\* lines 73-80 without the dump
ResaveCompare ==
    /\ pc = "resave_compare"
    /\ IF ~ResaveMatches(buffer, out_buffer)
       THEN IF DumpWanted(args.debug, buffer, out_buffer)
            THEN /\ pc' = "resave_dump_input"
                 /\ UNCHANGED <<exit, err, failStep, printed>>
            ELSE /\ Fail("ResaveMismatch", "compare")
                 /\ UNCHANGED printed
       ELSE /\ printed' = printed \cup {"Resave successful"}
            /\ Succeed
    /\ UNCHANGED <<args, env, prev, fs, fs0, stdin, stdout, swallowed, buffer, save,
                   out_buffer, editor, child, kept, openedW>>

\* line 75: std::fs::write("input.sav", input)?
ResaveDumpInput ==
    /\ pc = "resave_dump_input"
    /\ \E r \in FsWrite(fs, InputDump, buffer) :
          /\ fs' = r.fs
          /\ openedW' = IF r.opened THEN openedW \cup {InputDump} ELSE openedW
          /\ IF r.ok
             THEN pc' = "resave_dump_output" /\ UNCHANGED <<exit, err, failStep>>
             ELSE Fail("IOError", "dump")
    /\ UNCHANGED <<args, env, prev, fs0, stdin, stdout, printed, swallowed, buffer, save,
                   out_buffer, editor, child, kept>>

\* the dumps written and the mismatch then forgotten
ResaveDumpOutputThenOk ==
    /\ pc = "resave_dump_output"
    /\ \E r \in FsWrite(fs, OutputDump, out_buffer) :
          /\ fs' = r.fs
          /\ openedW' = IF r.opened THEN openedW \cup {OutputDump} ELSE openedW
          /\ IF r.ok
             THEN /\ printed' = printed \cup {"Resave successful"}
                  /\ Succeed
             ELSE /\ Fail("IOError", "dump")
                  /\ UNCHANGED printed
    /\ UNCHANGED <<args, env, prev, fs0, stdin, stdout, swallowed, buffer, save,
                   out_buffer, editor, child, kept>>

\* lines 76-78: std::fs::write("output.sav", output)?; return Err(..)
ResaveDumpOutput ==
    /\ pc = "resave_dump_output"
    /\ \E r \in FsWrite(fs, OutputDump, out_buffer) :
          /\ fs' = r.fs
          /\ openedW' = IF r.opened THEN openedW \cup {OutputDump} ELSE openedW
          /\ IF r.ok
             THEN Fail("ResaveMismatch", "compare")
             ELSE Fail("IOError", "dump")
    /\ UNCHANGED <<args, env, prev, fs0, stdin, stdout, printed, swallowed, buffer, save,
                   out_buffer, editor, child, kept>>

(* -------------------------------- edit ---------------------------------- *)
\* $EDITOR consulted before --editor
SelectEditorEnvFirst(arg, environment) ==
    IF EnvVar(environment).some THEN EnvVar(environment).val
    ELSE IF arg.some THEN arg.val
    ELSE Vim

\* lines 83-86: --editor, else $EDITOR when std::env::var yields it, else "vim"
SelectEditor(arg, environment) ==
    IF arg.some THEN arg.val
    ELSE IF EnvVar(environment).some THEN EnvVar(environment).val
    ELSE Vim

\* lines 83-86
EditSelectEditor ==
    /\ pc = "edit_editor"
    /\ editor' = SelectEditor(args.editor, env)
    /\ pc' = "edit_read"
    /\ UNCHANGED <<args, env, prev, fs, fs0, stdin, stdout, printed, exit, err, failStep,
                   swallowed, buffer, save, out_buffer, child, kept, openedW>>

\* line 89: std::fs::read(&edit.path)?
EditRead ==
    /\ pc = "edit_read"
    /\ \/ /\ fs[args.path] # NoFile
          /\ buffer' = fs[args.path]
          /\ pc' = "edit_decode"
          /\ UNCHANGED <<exit, err, failStep>>
       \/ /\ Fail("IOError", "read")
          /\ UNCHANGED buffer
    /\ UNCHANGED <<args, env, prev, fs, fs0, stdin, stdout, printed, swallowed, save,
                   out_buffer, editor, child, kept, openedW>>

\* lines 90-91: Save::read(&mut Cursor::new(&buffer))?, to_value(save)?
EditDecode ==
    /\ pc = "edit_decode"
    /\ save' = Decode(buffer)
    /\ IF save' = NoSave
       THEN Fail("DecodeError", "decode")
       ELSE pc' = "edit_temp" /\ UNCHANGED <<exit, err, failStep>>
    /\ UNCHANGED <<args, env, prev, fs, fs0, stdin, stdout, printed, swallowed, buffer,
                   out_buffer, editor, child, kept, openedW>>

\* line 94: tempfile::Builder::new().suffix(".json").tempfile()?
EditCreateTemp ==
    /\ pc = "edit_temp"
    /\ \/ /\ fs' = [fs EXCEPT ![TempPath] = <<>>]
          /\ openedW' = openedW \cup {TempPath}
          /\ pc' = "edit_write_temp"
          /\ UNCHANGED <<exit, err, failStep>>
       \/ /\ Fail("IOError", "temp_create")
          /\ UNCHANGED <<fs, openedW>>
    /\ UNCHANGED <<args, env, prev, fs0, stdin, stdout, printed, swallowed, buffer, save,
                   out_buffer, editor, child, kept>>

\* the temporary file persisted instead of removed
KeepTemp(f) == f

\* the temporary file is removed when `temp` goes out of scope
DropTemp(f) == [f EXCEPT ![TempPath] = NoFile]

\* writing data through a BufWriter that is then dropped: all of it arrives,
\* or the sink fails while the buffer spills ("err", the caller sees it), or
\* the sink fails in the flush on drop ("lost", nobody sees it)
BufWrite(data) ==
    {[data |-> data, res |-> "ok"]}
    \cup {[data |-> p, res |-> r] : p \in Prefixes(data), r \in {"err", "lost"}}

\* line 95: serde_json::to_writer_pretty(BufWriter::new(&temp), &value)?
EditWriteTemp ==
    /\ pc = "edit_write_temp"
    /\ \E w \in BufWrite(ToTextPretty(save)) :
          IF w.res = "err"
          THEN /\ fs' = DropTemp(fs)
               /\ Fail("IOError", "temp_write")
               /\ UNCHANGED swallowed
          ELSE /\ fs' = [fs EXCEPT ![TempPath] = w.data]
               /\ swallowed' = (swallowed \/ w.res = "lost")
               /\ pc' = "edit_split"
               /\ UNCHANGED <<exit, err, failStep>>
    /\ UNCHANGED <<args, env, prev, fs0, stdin, stdout, printed, buffer, save,
                   out_buffer, editor, child, kept, openedW>>

\* lines 98-101: shell_words::split(&editor).expect(..), args.next().expect(..)
EditSplit ==
    /\ pc = "edit_split"
    /\ LET r == Split(editor)
       IN  IF ~r.ok \/ r.words = <<>>
           THEN /\ pc' = "done"
                /\ exit' = 101
                /\ err' = "EditorInvocationError"
                /\ failStep' = "tokenize"
                /\ fs' = DropTemp(fs)
           ELSE /\ pc' = "edit_spawn"
                /\ UNCHANGED <<exit, err, failStep, fs>>
    /\ UNCHANGED <<args, env, prev, fs0, stdin, stdout, printed, swallowed, buffer, save,
                   out_buffer, editor, child, kept, openedW>>

DashDash == <<"-", "-">>

\* the path appended without the separator
EditorArgvNoSeparator(words, path) == Append(words, <<path>>)

\* lines 101-104: the tokens, then "--", then the temporary file's path
EditorArgv(words, path) == words \o <<DashDash, <<path>>>>

\* line 105: .stdin(std::process::Stdio::piped())
ChildStdin == "piped"

\* lines 101-106: Command::new(..).args(..).arg("--").arg(temp.path()).stdin(..).spawn()?
EditSpawn ==
    /\ pc = "edit_spawn"
    /\ \/ /\ child' = [state |-> "running", stdin |-> ChildStdin,
                       argv |-> EditorArgv(Split(editor).words, TempPath),
                       status |-> 0]
          /\ pc' = "edit_wait"
          /\ UNCHANGED <<exit, err, failStep, fs>>
       \/ /\ Fail("EditorInvocationError", "spawn")
          /\ fs' = DropTemp(fs)
          /\ UNCHANGED child
    /\ UNCHANGED <<args, env, prev, fs0, stdin, stdout, printed, swallowed, buffer, save,
                   out_buffer, editor, kept, openedW>>

\* what the user may leave in the temporary file that held text
EditedTexts(text) ==
    {text, StripSpace(text), <<>>, <<LBrace>>} \cup {ToTextPretty(d) : d \in TextDocs}

\* the editor process: rewrites the temporary file and exits with a status
EditorRuns ==
    /\ pc = "edit_wait"
    /\ child.state = "running"
    /\ \E text \in EditedTexts(fs[TempPath]), status \in {0, 1} :
          /\ fs' = [fs EXCEPT ![TempPath] = text]
          /\ kept' = (text = fs[TempPath])
          /\ child' = [child EXCEPT !.state = "exited", !.status = status]
    /\ UNCHANGED <<args, env, prev, fs0, stdin, stdout, printed, pc, exit, err, failStep,
                   swallowed, buffer, save, out_buffer, editor, openedW>>

\* a non-zero exit status of the editor treated as a failure
EditWaitChecksStatus ==
    /\ pc = "edit_wait"
    /\ child.state = "exited"
    /\ child' = [child EXCEPT !.state = "reaped"]
    /\ IF child.status = 0
       THEN /\ pc' = "edit_reparse"
            /\ UNCHANGED <<exit, err, failStep, fs>>
       ELSE /\ Fail("IOError", "wait")
            /\ fs' = DropTemp(fs)
    /\ UNCHANGED <<args, env, prev, fs0, stdin, stdout, printed, swallowed, buffer, save,
                   out_buffer, editor, kept, openedW>>

\* line 107: .wait()? blocks until the child has exited; the status is not
\* looked at.  waitpid fails only with ECHILD, when the child has already
\* been collected.
EditWait ==
    /\ pc = "edit_wait"
    /\ child.state = "exited"
    /\ child' = [child EXCEPT !.state = "reaped"]
    /\ \/ /\ pc' = "edit_reparse"
          /\ UNCHANGED <<exit, err, failStep, fs>>
       \/ /\ Fail("IOError", "wait")
          /\ fs' = DropTemp(fs)
    /\ UNCHANGED <<args, env, prev, fs0, stdin, stdout, printed, swallowed, buffer, save,
                   out_buffer, editor, kept, openedW>>

\* line 110: serde_json::from_reader(BufReader::new(temp.reopen()?))?
EditReparse ==
    /\ pc = "edit_reparse"
    /\ \/ /\ save' = FromText(fs[TempPath])
          /\ IF save' = NoSave
             THEN Fail("MalformedText", "parse") /\ fs' = DropTemp(fs)
             ELSE pc' = "edit_encode" /\ UNCHANGED <<exit, err, failStep, fs>>
       \/ /\ Fail("IOError", "reopen")
          /\ fs' = DropTemp(fs)
          /\ UNCHANGED save
    /\ UNCHANGED <<args, env, prev, fs0, stdin, stdout, printed, swallowed, buffer,
                   out_buffer, editor, child, kept, openedW>>

\* the document encoded straight into the target, opened before encoding
EditEncodeIntoTarget ==
    /\ pc = "edit_encode"
    /\ openedW' = openedW \cup {args.path}
    /\ IF ~Encodable(save)
       THEN /\ Fail("EncodeError", "encode")
            /\ fs' = DropTemp([fs EXCEPT ![args.path] = <<>>])
            /\ UNCHANGED out_buffer
       ELSE /\ out_buffer' = Encode(save)
            /\ pc' = "edit_commit"
            /\ fs' = [fs EXCEPT ![args.path] = <<>>]
            /\ UNCHANGED <<exit, err, failStep>>
    /\ UNCHANGED <<args, env, prev, fs0, stdin, stdout, printed, swallowed, buffer, save,
                   editor, child, kept>>

\* lines 111-112: modified_save.write(&mut out_buffer)?
EditEncode ==
    /\ pc = "edit_encode"
    /\ IF ~Encodable(save)
       THEN /\ Fail("EncodeError", "encode")
            /\ fs' = DropTemp(fs)
            /\ UNCHANGED out_buffer
       ELSE /\ out_buffer' = Encode(save)
            /\ pc' = "edit_commit"
            /\ UNCHANGED <<exit, err, failStep, fs>>
    /\ UNCHANGED <<args, env, prev, fs0, stdin, stdout, printed, swallowed, buffer, save,
                   editor, child, kept, openedW>>

\* the buffers compared by their lengths only
CommitNeededByLength(old, new) == Len(old) # Len(new)

\* line 113: the target is rewritten when the new bytes differ from the old
CommitNeeded(old, new) == old # new

\* lines 113-124: report, and overwrite the target when needed
EditCommit ==
    /\ pc = "edit_commit"
    /\ IF ~CommitNeeded(buffer, out_buffer)
       THEN /\ printed' = printed \cup {"File unchanged, doing nothing."}
            /\ fs' = DropTemp(fs)
            /\ Succeed
            /\ UNCHANGED openedW
       ELSE /\ printed' = printed \cup {"File modified, writing new save."}
            /\ \E r \in FsWrite(fs, args.path, out_buffer) :
                  /\ fs' = DropTemp(r.fs)
                  /\ openedW' = IF r.opened THEN openedW \cup {args.path} ELSE openedW
                  /\ IF r.ok THEN Succeed ELSE Fail("IOError", "commit")
    /\ UNCHANGED <<args, env, prev, fs0, stdin, stdout, swallowed, buffer, save,
                   out_buffer, editor, child, kept>>

(* ------------------------- to-json and from-json ------------------------ *)
\* lines 129-134, input(): "-" is standard input, anything else File::open
InputExists(f, path) == IF path = Std THEN TRUE ELSE f[path] # NoFile

\* what a reader returned by input() yields
InputData(f, path) == IF path = Std THEN stdin ELSE f[path]

\* lines 136-147, output() on file system f: "-" is standard output, anything
\* else is created or truncated
OutputOpened(f, path) == IF path = Std THEN f ELSE [f EXCEPT ![path] = <<>>]

\* the sink of a writer returned by output() receives data
OutputWritten(f, path, data) == IF path = Std THEN f ELSE [f EXCEPT ![path] = data]

\* the output resolved before the input
ToJsonInputAfterOutput ==
    /\ pc = "tojson_input"
    /\ fs' = OutputOpened(fs, args.output)
    /\ openedW' = openedW \cup {args.output}
    /\ \/ /\ InputExists(fs, args.input)
          /\ pc' = "tojson_read"
          /\ UNCHANGED <<exit, err, failStep>>
       \/ /\ args.input # Std
          /\ Fail("IOError", "open_input")
    /\ UNCHANGED <<args, env, prev, fs0, stdin, stdout, printed, swallowed, buffer,
                   save, out_buffer, editor, child, kept>>

\* line 61: input(&io.input)?
ToJsonInput ==
    /\ pc = "tojson_input"
    /\ \/ /\ InputExists(fs, args.input)
          /\ pc' = "tojson_read"
          /\ UNCHANGED <<exit, err, failStep>>
       \/ /\ args.input # Std
          /\ Fail("IOError", "open_input")
    /\ UNCHANGED <<args, env, prev, fs, fs0, stdin, stdout, printed, swallowed, buffer,
                   save, out_buffer, editor, child, kept, openedW>>

\* line 61: Save::read(&mut ..)?
ToJsonRead ==
    /\ pc = "tojson_read"
    /\ \/ /\ buffer' = InputData(fs, args.input)
          /\ save' = Decode(buffer')
          /\ IF save' = NoSave
             THEN Fail("DecodeError", "decode")
             ELSE pc' = "tojson_output" /\ UNCHANGED <<exit, err, failStep>>
       \/ /\ Fail("IOError", "read")
          /\ UNCHANGED <<buffer, save>>
    /\ UNCHANGED <<args, env, prev, fs, fs0, stdin, stdout, printed, swallowed,
                   out_buffer, editor, child, kept, openedW>>

\* line 62: output(&io.output)?
ToJsonOutput ==
    /\ pc = "tojson_output"
    /\ \/ /\ fs' = OutputOpened(fs, args.output)
          /\ openedW' = openedW \cup {args.output}
          /\ pc' = "tojson_write"
          /\ UNCHANGED <<exit, err, failStep>>
       \/ /\ args.output # Std
          /\ Fail("IOError", "open_output")
          /\ UNCHANGED <<fs, openedW>>
    /\ UNCHANGED <<args, env, prev, fs0, stdin, stdout, printed, swallowed, buffer, save,
                   out_buffer, editor, child, kept>>

\* line 62: serde_json::to_writer_pretty(.., &save)?, then the writer is dropped
ToJsonWrite ==
    /\ pc = "tojson_write"
    /\ \E w \in BufWrite(ToTextPretty(save)) :
          /\ fs' = OutputWritten(fs, args.output, w.data)
          /\ stdout' = IF args.output = Std THEN w.data ELSE stdout
          /\ swallowed' = (swallowed \/ w.res = "lost")
          /\ IF w.res = "err" THEN Fail("IOError", "write") ELSE Succeed
    /\ UNCHANGED <<args, env, prev, fs0, stdin, printed, buffer, save, out_buffer,
                   editor, child, kept, openedW>>

\* line 65: input(&io.input)?
FromJsonInput ==
    /\ pc = "fromjson_input"
    /\ \/ /\ InputExists(fs, args.input)
          /\ pc' = "fromjson_parse"
          /\ UNCHANGED <<exit, err, failStep>>
       \/ /\ args.input # Std
          /\ Fail("IOError", "open_input")
    /\ UNCHANGED <<args, env, prev, fs, fs0, stdin, stdout, printed, swallowed, buffer,
                   save, out_buffer, editor, child, kept, openedW>>

\* the output resolved before the text is parsed
FromJsonParseAfterOutput ==
    /\ pc = "fromjson_parse"
    /\ fs' = OutputOpened(fs, args.output)
    /\ openedW' = openedW \cup {args.output}
    /\ \/ /\ buffer' = InputData(fs, args.input)
          /\ save' = FromText(buffer')
          /\ IF save' = NoSave
             THEN Fail("MalformedText", "parse")
             ELSE pc' = "fromjson_output" /\ UNCHANGED <<exit, err, failStep>>
       \/ /\ Fail("IOError", "read")
          /\ UNCHANGED <<buffer, save>>
    /\ UNCHANGED <<args, env, prev, fs0, stdin, stdout, printed, swallowed,
                   out_buffer, editor, child, kept>>

\* line 65: serde_json::from_reader(&mut ..)?
FromJsonParse ==
    /\ pc = "fromjson_parse"
    /\ \/ /\ buffer' = InputData(fs, args.input)
          /\ save' = FromText(buffer')
          /\ IF save' = NoSave
             THEN Fail("MalformedText", "parse")
             ELSE pc' = "fromjson_output" /\ UNCHANGED <<exit, err, failStep>>
       \/ /\ Fail("IOError", "read")
          /\ UNCHANGED <<buffer, save>>
    /\ UNCHANGED <<args, env, prev, fs, fs0, stdin, stdout, printed, swallowed,
                   out_buffer, editor, child, kept, openedW>>

\* line 66: output(&io.output)?
FromJsonOutput ==
    /\ pc = "fromjson_output"
    /\ \/ /\ fs' = OutputOpened(fs, args.output)
          /\ openedW' = openedW \cup {args.output}
          /\ pc' = "fromjson_write"
          /\ UNCHANGED <<exit, err, failStep>>
       \/ /\ args.output # Std
          /\ Fail("IOError", "open_output")
          /\ UNCHANGED <<fs, openedW>>
    /\ UNCHANGED <<args, env, prev, fs0, stdin, stdout, printed, swallowed, buffer, save,
                   out_buffer, editor, child, kept>>

\* line 66: save.write(&mut ..)?, then the writer is dropped
FromJsonWrite ==
    /\ pc = "fromjson_write"
    /\ IF ~Encodable(save)
       THEN /\ Fail("EncodeError", "encode")
            /\ UNCHANGED <<fs, stdout, swallowed, out_buffer>>
       ELSE /\ out_buffer' = Encode(save)
            /\ \E w \in BufWrite(out_buffer') :
                  /\ fs' = OutputWritten(fs, args.output, w.data)
                  /\ stdout' = IF args.output = Std THEN w.data ELSE stdout
                  /\ swallowed' = (swallowed \/ w.res = "lost")
                  /\ IF w.res = "err" THEN Fail("IOError", "write") ELSE Succeed
    /\ UNCHANGED <<args, env, prev, fs0, stdin, printed, buffer, save, editor, child,
                   kept, openedW>>

(* --------------------------- specification ------------------------------ *)
Next ==
    \/ ToJsonInput
    \/ ToJsonRead
    \/ ToJsonOutput
    \/ ToJsonWrite
    \/ FromJsonInput
    \/ FromJsonParse
    \/ FromJsonOutput
    \/ FromJsonWrite
    \/ ResaveRead
    \/ ResaveRoundTrip
    \/ ResaveCompare
    \/ ResaveDumpInput
    \/ ResaveDumpOutput
    \/ EditSelectEditor
    \/ EditRead
    \/ EditDecode
    \/ EditCreateTemp
    \/ EditWriteTemp
    \/ EditSplit
    \/ EditSpawn
    \/ EditorRuns
    \/ EditWait
    \/ EditReparse
    \/ EditEncode
    \/ EditCommit

Spec == Init /\ [][Next]_vars

(* ------------------------- two commands in a row ----------------------- *)
\* a new process starts: main's locals and the process state are fresh
FreshProcess ==
    /\ exit' = -1
    /\ err' = ""
    /\ failStep' = ""
    /\ swallowed' = FALSE
    /\ buffer' = NoBytes
    /\ save' = NoSave
    /\ out_buffer' = NoBytes
    /\ printed' = {}
    /\ openedW' = {}
    /\ fs0' = fs

\* to-json - - | from-json - -: the text to-json wrote to its standard
\* output is what from-json finds on its standard input
PipeIntoFromJson ==
    /\ pc = "done"
    /\ args = ArgsOf("to-json", Std, Std, "", None, FALSE)
    /\ ~prev.ran
    /\ prev' = [ran |-> TRUE, exit |-> exit, err |-> err, input |-> stdin,
                swallowed |-> swallowed, debug |-> FALSE]
    /\ args' = ArgsOf("from-json", Std, Std, "", None, FALSE)
    /\ stdin' = stdout
    /\ stdout' = <<>>
    /\ pc' = FirstStep(args')
    /\ FreshProcess
    /\ UNCHANGED <<env, fs, editor, child, kept>>

InitPipe == Init /\ args = ArgsOf("to-json", Std, Std, "", None, FALSE)

NextPipe ==
    \/ ToJsonInput
    \/ ToJsonRead
    \/ ToJsonOutput
    \/ ToJsonWrite
    \/ PipeIntoFromJson
    \/ FromJsonInput
    \/ FromJsonParse
    \/ FromJsonOutput
    \/ FromJsonWrite

SpecPipe == InitPipe /\ [][NextPipe]_vars

\* test-resave PATH run a second time, with or without --debug
ResaveAgain ==
    /\ pc = "done"
    /\ args.action = "test-resave"
    /\ ~prev.ran
    /\ prev' = [ran |-> TRUE, exit |-> exit, err |-> err, input |-> fs0[args.path],
                swallowed |-> swallowed, debug |-> args.debug]
    /\ \E d \in BOOLEAN : args' = [args EXCEPT !.debug = d]
    /\ pc' = FirstStep(args')
    /\ FreshProcess
    /\ UNCHANGED <<env, fs, stdin, stdout, editor, child, kept>>

InitTwice == Init /\ args.action = "test-resave"

NextTwice ==
    \/ ResaveRead
    \/ ResaveRoundTrip
    \/ ResaveCompare
    \/ ResaveDumpInput
    \/ ResaveDumpOutput
    \/ ResaveAgain

SpecTwice == InitTwice /\ [][NextTwice]_vars

(* ----------------------------- type check ------------------------------- *)
TypeOK ==
    /\ args \in CommandLines
    /\ pc \in {"tojson_input", "tojson_read", "tojson_output", "tojson_write",
               "fromjson_input", "fromjson_parse", "fromjson_output", "fromjson_write",
               "resave_read", "resave_roundtrip", "resave_compare",
               "resave_dump_input", "resave_dump_output",
               "edit_editor", "edit_read", "edit_decode", "edit_temp",
               "edit_write_temp", "edit_split", "edit_spawn", "edit_wait",
               "edit_reparse", "edit_encode", "edit_commit", "done"}
    /\ exit \in {-1, 0, 1, 101}
    /\ (pc = "done") <=> (exit # -1)
    /\ printed \subseteq Messages
    /\ child.state \in {"none", "running", "exited", "reaped"}
    /\ openedW \subseteq (Paths \cup {Std})

(* ------------------------------- claims --------------------------------- *)
Ended == pc = "done"
IsToJson == args.action = "to-json"
IsFromJson == args.action = "from-json"
IsResave == args.action = "test-resave"
IsEdit == args.action = "edit"

Unchanged == "File unchanged, doing nothing."
Modified == "File modified, writing new save."
Successful == "Resave successful"

\* C1: an edit run that completes, in which the editor left the temporary
\* file's text as the command wrote it, leaves the target's bytes as they
\* were and reports "unchanged", not "modified".
C1_IdempotentEdit ==
    (Ended /\ IsEdit /\ exit = 0 /\ kept) =>
        /\ fs[args.path] = fs0[args.path]
        /\ Unchanged \in printed
        /\ Modified \notin printed

C3_AtomicOverwrite ==
    (Ended /\ IsEdit) =>
        \/ fs[args.path] = fs0[args.path]
        \/ fs[args.path] = out_buffer

\* C4: edit with --editor "" that fails on the empty command has opened no
\* file for writing, has spawned no editor, has left the target alone, and
\* exits non-zero with the editor-invocation failure.
C4_EmptyEditorFailsBeforeAnyWrite ==
    (Ended /\ IsEdit /\ args.editor = Some(<<>>) /\ failStep = "tokenize") =>
        /\ err = "EditorInvocationError"
        /\ exit # 0
        /\ openedW = {}
        /\ child.state = "none"
        /\ fs[args.path] = fs0[args.path]

\* test-resave reached the comparison with the debug flag set and the
\* re-encoded bytes different from the original ones
DumpCase ==
    /\ args.debug
    /\ buffer # NoBytes
    /\ out_buffer # NoBytes
    /\ buffer # out_buffer

DumpsUntouched ==
    /\ openedW \cap {InputDump, OutputDump} = {}
    /\ fs[InputDump] = fs0[InputDump]
    /\ fs[OutputDump] = fs0[OutputDump]

\* C5 as stated: the dumps are written only under --debug on a mismatch; the
\* command then exits non-zero with input.sav holding the original bytes and
\* output.sav the re-encoded bytes; in every other run neither is touched.
C5_DumpsExact ==
    (Ended /\ IsResave) =>
        IF DumpCase
        THEN /\ exit # 0
             /\ fs[InputDump] = fs0[args.path]
             /\ fs[OutputDump] = out_buffer
        ELSE DumpsUntouched

\* C5 amended: the dumps are written only under --debug on a mismatch; the
\* command then exits non-zero and, unless a dump write fails, input.sav
\* holds the original bytes and output.sav the re-encoded bytes; when the
\* write of input.sav fails output.sav is not written; in every other run
\* neither is touched.
C5_DumpsOnlyOnDebugMismatch ==
    (Ended /\ IsResave) =>
        IF DumpCase
        THEN /\ exit # 0
             /\ failStep \in {"dump", "compare"}
             /\ failStep = "compare" =>
                   /\ fs[InputDump] = fs0[args.path]
                   /\ fs[OutputDump] = out_buffer
             /\ (failStep = "dump" /\ fs[InputDump] # fs0[args.path]) =>
                   /\ OutputDump \notin openedW
                   /\ fs[OutputDump] = fs0[OutputDump]
        ELSE DumpsUntouched

\* C5 witness: both dumps written after a mismatch under --debug
C5_DumpsWritten ==
    /\ Ended
    /\ IsResave
    /\ DumpCase
    /\ args.path = SavePath
    /\ err = "ResaveMismatch"
    /\ {InputDump, OutputDump} \subseteq openedW
    /\ fs[InputDump] = fs0[SavePath]
    /\ fs[OutputDump] = out_buffer
    /\ fs0[InputDump] # fs[InputDump]

\* C6 as stated: for a file that decodes and re-encodes, test-resave prints
\* the success message and exits 0 exactly when the re-encoded bytes equal
\* the original ones; otherwise it exits non-zero with the mismatch error
\* and no success message.
C6_VerdictIffEqual ==
    (Ended /\ IsResave /\ out_buffer # NoBytes) =>
        IF buffer = out_buffer
        THEN exit = 0 /\ Successful \in printed
        ELSE exit # 0 /\ err = "ResaveMismatch" /\ Successful \notin printed

\* C6 amended: as C6, but on a mismatch the error is the mismatch error
\* unless --debug is set and a dump write fails, and then it is that I/O
\* error.
C6_VerdictIffEqualOrDumpError ==
    (Ended /\ IsResave /\ out_buffer # NoBytes) =>
        IF buffer = out_buffer
        THEN exit = 0 /\ err = "" /\ Successful \in printed
        ELSE /\ exit # 0
             /\ Successful \notin printed
             /\ \/ err = "ResaveMismatch"
                \/ err = "IOError" /\ args.debug /\ failStep = "dump"

\* C6 witness: a round-trip-stable file reported as successful
C6_StableFileSucceeds ==
    /\ Ended
    /\ IsResave
    /\ buffer # NoBytes
    /\ buffer = out_buffer
    /\ exit = 0
    /\ Successful \in printed

\* C7: to-json on an input path that does not exist fails with an I/O error
\* and non-zero exit, and has not created, truncated or written the output
\* path or stream.
C7_MissingInputNoOutput ==
    (Ended /\ IsToJson /\ args.input = MissingPath) =>
        /\ err = "IOError"
        /\ exit # 0
        /\ args.output \notin openedW
        /\ fs[OutPath] = fs0[OutPath]
        /\ stdout = <<>>

\* C7 witness: the run on the missing input ended, an older output file in place
C7_MissingInputFailed ==
    /\ Ended
    /\ IsToJson
    /\ args.input = MissingPath
    /\ args.output = OutPath
    /\ fs0[MissingPath] = NoFile
    /\ fs[OutPath] = Stale
    /\ failStep = "open_input"

\* C8: a command exits with status zero exactly when no step failed.
C8_ExitZeroIffNoFailure ==
    Ended => (exit = 0 <=> (failStep = "" /\ ~swallowed))

\* C9: an edit command that created its temporary file ends with that file
\* removed and any spawned editor reaped, on every exit path.
C9_TempRemovedChildReaped ==
    (Ended /\ IsEdit /\ TempPath \in openedW) =>
        /\ fs[TempPath] = NoFile
        /\ child.state \in {"none", "reaped"}

\* C9 witness: the command aborted on the editor command after creating the
\* temporary file
C9_AbortedAfterTemp ==
    /\ Ended
    /\ IsEdit
    /\ TempPath \in openedW
    /\ exit = 101
    /\ fs[TempPath] = NoFile

\* C10: the editor child is launched with the command's own standard input.
C10_ChildStdinInherited ==
    child.state # "none" => child.stdin = "inherit"

\* C11 as stated: the editor command is the --editor argument when given,
\* else the value of EDITOR whenever it is set, else the fallback.
C11_EditorPriority ==
    (IsEdit /\ pc # "edit_editor") =>
        editor = IF args.editor.some THEN args.editor.val
                 ELSE IF env.set THEN env.val
                 ELSE Vim

\* C11 amended: the editor command is the --editor argument when given, else
\* the value of EDITOR whenever it is set to valid Unicode, else the fallback.
C11_EditorPriorityUnicode ==
    (IsEdit /\ pc # "edit_editor") =>
        editor = IF args.editor.some THEN args.editor.val
                 ELSE IF env.set /\ env.unicode THEN env.val
                 ELSE Vim

\* C11 witness: the editor given with --editor is spawned although EDITOR
\* names another one
C11_ArgumentBeatsEnvironment ==
    /\ IsEdit
    /\ args.editor.some
    /\ env.set
    /\ env.unicode
    /\ args.editor.val # env.val
    /\ editor = args.editor.val
    /\ child.state = "running"

\* the codec reproduces the bytes and the text bridge the document
RoundTripStable(bytes) ==
    /\ Decode(bytes) # NoSave
    /\ Encode(Decode(bytes)) = bytes
    /\ FromText(ToTextPretty(Decode(bytes))) = Decode(bytes)

\* C12: on a round-trip-stable input, to-json piped unmodified into
\* from-json, both exiting 0, puts exactly the input bytes on standard
\* output.
C12_StreamSymmetry ==
    (Ended /\ IsFromJson /\ prev.ran /\ prev.exit = 0 /\ exit = 0
        /\ RoundTripStable(prev.input)) =>
        stdout = prev.input

\* what a test-resave run reported: success, mismatch, or neither
Verdict(status, error) ==
    IF status = 0 THEN "success"
    ELSE IF error = "ResaveMismatch" THEN "mismatch"
    ELSE "error"

C14_CommitIffDifferent ==
    /\ (IsEdit /\ args.path \in openedW) =>
          (out_buffer # NoBytes /\ buffer # out_buffer)
    /\ (Ended /\ IsEdit /\ out_buffer # NoBytes) =>
          IF buffer = out_buffer
          THEN /\ exit = 0
               /\ printed = {Unchanged}
               /\ args.path \notin openedW
               /\ fs[args.path] = fs0[args.path]
          ELSE /\ printed = {Modified}
               /\ \/ args.path \in openedW
                  \/ failStep = "commit" /\ fs[args.path] = fs0[args.path]
               /\ exit = 0 =>
                     (args.path \in openedW /\ fs[args.path] = out_buffer)

\* C14 witness: a changed field of the same length was committed
C14_ModifiedCommitted ==
    /\ Ended
    /\ IsEdit
    /\ exit = 0
    /\ buffer # out_buffer
    /\ Len(buffer) = Len(out_buffer)
    /\ fs[args.path] = out_buffer
    /\ printed = {Modified}

\* C15: edit goes on to re-read the temporary file only once the editor has
\* exited and been waited for; while the editor runs the wait does not
\* return; and once it has exited the step to the re-parse is open whatever
\* its exit status is.
C15_WaitsAndIgnoresStatus ==
    IsEdit =>
        /\ (\/ pc \in {"edit_reparse", "edit_encode", "edit_commit"}
            \/ failStep \in {"reopen", "parse", "encode", "commit"}
            \/ printed # {}) => child.state = "reaped"
        /\ (pc = "edit_wait" /\ child.state = "running") => ~ENABLED EditWait
        /\ (pc = "edit_wait" /\ child.state = "exited") =>
              ENABLED (EditWait /\ pc' = "edit_reparse")

\* C15 witness: the editor exited non-zero and the edit was committed
C15_NonZeroStatusCommitted ==
    /\ Ended
    /\ IsEdit
    /\ child.state = "reaped"
    /\ child.status = 1
    /\ exit = 0
    /\ printed = {Modified}
    /\ fs[args.path] = out_buffer

\* C16: the editor's argument vector is the tokens of the editor command in
\* order, then "--", then the temporary file's path, and nothing else.
C16_ArgvTokensSeparatorPath ==
    child.state # "none" =>
        LET words == Split(editor).words
            n == Len(words)
        IN  /\ n >= 1
            /\ Len(child.argv) = n + 2
            /\ SubSeq(child.argv, 1, n) = words
            /\ child.argv[n + 1] = <<"-", "-">>
            /\ child.argv[n + 2] = <<TempPath>>

\* C16 witness: a quoted token and a plain one, then "--" and the path
C16_QuotedCommandSpawned ==
    /\ child.state = "running"
    /\ Len(child.argv) = 4
    /\ child.argv[1] = <<"a", " ", "b">>
    /\ child.argv[2] = <<"c">>

\* C17: in to-json and from-json, when opening, reading, decoding or parsing
\* the input fails (and as long as no document has been obtained), the
\* output path has not been created or truncated and nothing was written.
C17_OutputOnlyAfterInput ==
    ((IsToJson \/ IsFromJson)
        /\ (save = NoSave \/ failStep \in {"open_input", "read", "decode", "parse"})) =>
        /\ args.output \notin openedW
        /\ fs[OutPath] = fs0[OutPath]
        /\ stdout = <<>>

\* C17 witness: from-json on malformed text ended with the older output file intact
C17_MalformedInputKeepsOutput ==
    /\ Ended
    /\ IsFromJson
    /\ failStep = "parse"
    /\ args.output = OutPath
    /\ fs0[OutPath] = Stale
    /\ fs[OutPath] = Stale

\* C18: while the editor runs and has not yet touched it, the temporary file
\* holds the complete text of the decoded target.
C18_EditorSeesCompleteText ==
    (IsEdit /\ child.state = "running") =>
        /\ buffer # NoBytes
        /\ save # NoSave
        /\ save = Decode(buffer)
        /\ fs[TempPath] = ToTextPretty(save)

\* C19: a test-resave run whose dump writes, if any, all succeed leaves the
\* bytes at PATH as they were.
C19_ResaveLeavesFile ==
    (Ended /\ IsResave /\ failStep # "dump") =>
        fs[args.path] = fs0[args.path]

=============================================================================
